---- MODULE Spec2Model ----
(***************************************************************************)
(* detchannelmaps: HardwareMapService (src/src/HardwareMapService.cpp) and *)
(* the PD2HDChannelMap adapter (src/plugins/PD2HDChannelMap.cpp).          *)
(*                                                                         *)
(* Unsigned integers wider than 16 bits are kept as big-endian tuples of   *)
(* 16-bit limbs: a uint64_t is <<w3, w2, w1, w0>> and stands for           *)
(* w3*2^48 + w2*2^32 + w1*2^16 + w0, a uint32_t / uint is <<w1, w0>>.      *)
(* Strings are tuples of one-character strings.                            *)
(***************************************************************************)
EXTENDS Integers, Sequences, FiniteSets, TLC

VARIABLES
    file,                          \* the lines of the file given to the file constructor
    input,                         \* per service: the HardwareMap handed to setup_maps
    constructed,                   \* per service: has its constructor returned
    m_geo_id_to_info_map,          \* per service: geo-id -> HWInfo
    m_source_id_to_geo_ids_map,    \* per service: source id -> sequence of HWInfo
    m_dro_info_map,                \* per service: <<host, card>> -> DROInfo
    result                         \* outcome of the last call

vars == <<file, input, constructed, m_geo_id_to_info_map,
          m_source_id_to_geo_ids_map, m_dro_info_map, result>>

----------------------------------------------------------------------------
(* Fixed-width unsigned arithmetic on limbs.                               *)

\* 2^16: the number of values of one limb (uint16_t).
LimbBase == 65536

Pow2(n) == 2 ^ n

\* Bitwise AND / OR of two values below 2^n, bit by bit (an operand without
\* bits ends the walk).
RECURSIVE BitAnd(_, _, _)
BitAnd(a, b, n) ==
    IF n = 0 \/ a = 0 \/ b = 0 THEN 0
    ELSE (IF a % 2 = 1 /\ b % 2 = 1 THEN 1 ELSE 0)
         + 2 * BitAnd(a \div 2, b \div 2, n - 1)

RECURSIVE BitOr(_, _, _)
BitOr(a, b, n) ==
    IF n = 0 THEN 0
    ELSE IF a = 0 THEN b
    ELSE IF b = 0 THEN a
    ELSE (IF a % 2 = 1 \/ b % 2 = 1 THEN 1 ELSE 0)
         + 2 * BitOr(a \div 2, b \div 2, n - 1)

\* Limb j of x, j = 0 the least significant; 0 outside the value.
Limb(x, j) == IF j >= 0 /\ j < Len(x) THEN x[Len(x) - j] ELSE 0

\* static_cast<uint64_t>(v) of a uint16_t, and the conversion of a promoted
\* uint16_t operand to uint64_t.
ToU64(v) == <<0, 0, 0, v>>

\* Conversion of a uint64_t to uint16_t: the low 16 bits.
ToU16(x) == Limb(x, 0)

\* x << n on uint64_t, 0 <= n < 64.
Shl64(x, n) ==
    LET k == n \div 16
        r == n % 16
        sh(j) == ((Limb(x, j - k) % Pow2(16 - r)) * Pow2(r))
                 + (Limb(x, j - k - 1) \div Pow2(16 - r))
    IN  <<sh(3), sh(2), sh(1), sh(0)>>

\* x >> n on uint64_t, 0 <= n < 64.
Shr64(x, n) ==
    LET k == n \div 16
        r == n % 16
        sh(j) == (Limb(x, j + k) \div Pow2(r))
                 + ((Limb(x, j + k + 1) % Pow2(r)) * Pow2(16 - r))
    IN  <<sh(3), sh(2), sh(1), sh(0)>>

Or64(x, y) == [j \in 1..4 |-> BitOr(x[j], y[j], 16)]

And64(x, y) == [j \in 1..4 |-> BitAnd(x[j], y[j], 16)]

\* x < y on limb tuples of equal length (the order of std::map's integer keys).
RECURSIVE ULess(_, _)
ULess(x, y) ==
    IF x = <<>> THEN FALSE
    ELSE IF Head(x) # Head(y) THEN Head(x) < Head(y)
    ELSE ULess(Tail(x), Tail(y))

----------------------------------------------------------------------------
(* The geo-id packing.                                                     *)

\* get_geo_id with det_link shifted by 32 instead of 48.
get_geo_id_shift32(det_link, det_slot, det_crate, det_id) ==
    Or64(Or64(Or64(Shl64(ToU64(det_link), 32), Shl64(ToU64(det_slot), 32)),
              Shl64(ToU64(det_crate), 16)),
         ToU64(det_id))

\* get_geo_id(det_link, det_slot, det_crate, det_id)
get_geo_id(det_link, det_slot, det_crate, det_id) ==
    Or64(Or64(Or64(Shl64(ToU64(det_link), 48), Shl64(ToU64(det_slot), 32)),
              Shl64(ToU64(det_crate), 16)),
         ToU64(det_id))

\* get_geo_id(hw_info)
get_geo_id_of(hw_info) ==
    get_geo_id(hw_info.det_link, hw_info.det_slot, hw_info.det_crate, hw_info.det_id)

\* 0xffff as the uint64_t operand of &.
Mask16 == ToU64(LimbBase - 1)

\* parse_geo_id with det_slot and det_crate taken from each other's bits.
parse_geo_id_swapped(geo_id) ==
    [det_link  |-> ToU16(And64(Mask16, Shr64(geo_id, 48))),
     det_slot  |-> ToU16(And64(Mask16, Shr64(geo_id, 16))),
     det_crate |-> ToU16(And64(Mask16, Shr64(geo_id, 32))),
     det_id    |-> ToU16(And64(Mask16, geo_id))]

parse_geo_id(geo_id) ==
    [det_link  |-> ToU16(And64(Mask16, Shr64(geo_id, 48))),
     det_slot  |-> ToU16(And64(Mask16, Shr64(geo_id, 32))),
     det_crate |-> ToU16(And64(Mask16, Shr64(geo_id, 16))),
     det_id    |-> ToU16(And64(Mask16, geo_id))]

----------------------------------------------------------------------------
(* Characters and strings.                                                 *)

Digits == <<"0", "1", "2", "3", "4", "5", "6", "7", "8", "9">>

\* The character code of c (ASCII), for the characters the model uses.
CharCode(c) ==
    CASE c = "\t" -> 9
      [] c = " "  -> 32
      [] c = "#"  -> 35
      [] c = "A"  -> 65
      [] c = "B"  -> 66
      [] c = "a"  -> 97
      [] c = "b"  -> 98
      [] c = "c"  -> 99
      [] c = "h"  -> 104
      [] c = "o"  -> 111
      [] c = "s"  -> 115
      [] c = "t"  -> 116
      [] OTHER    -> 48 + (CHOOSE d \in 0..9 : Digits[d + 1] = c)

\* std::string operator<: lexicographic on character codes.
RECURSIVE StrLess(_, _)
StrLess(a, b) ==
    IF b = <<>> THEN FALSE
    ELSE IF a = <<>> THEN TRUE
    ELSE IF Head(a) # Head(b) THEN CharCode(Head(a)) < CharCode(Head(b))
    ELSE StrLess(Tail(a), Tail(b))

\* operator< of std::pair<std::string, uint16_t>, the key of m_dro_info_map.
KeyLess(k1, k2) ==
    StrLess(k1[1], k2[1]) \/ (~StrLess(k2[1], k1[1]) /\ k1[2] < k2[2])

----------------------------------------------------------------------------
(* Records and containers.                                                 *)

\* A value-initialised HWInfo.
DefaultHWInfo ==
    [dro_source_id |-> 0, det_link |-> 0, det_slot |-> 0, det_crate |-> 0,
     det_id |-> 0, dro_host |-> <<>>, dro_card |-> 0, dro_slr |-> 0,
     dro_link |-> 0, from_file |-> FALSE]

\* An empty std::map.
EmptyMap == [k \in {} |-> {}]

\* m[k] = v on a std::map: inserts the key or overwrites its value.
Put(m, k, v) == [x \in (DOMAIN m) \cup {k} |-> IF x = k THEN v ELSE m[x]]

\* The keys of the geo-id index in the order the range-for visits them, taken
\* to be ascending (std::map). No property below rests on which order it is,
\* only on both loops over the index visiting it in the same one.
RECURSIVE GeoIdOrder(_)
GeoIdOrder(keys) ==
    IF keys = {} THEN <<>>
    ELSE LET least == CHOOSE k \in keys : \A o \in keys \ {k} : ULess(k, o)
         IN  <<least>> \o GeoIdOrder(keys \ {least})

\* The keys of m_dro_info_map in iteration (ascending) order.
RECURSIVE DroKeyOrder(_)
DroKeyOrder(keys) ==
    IF keys = {} THEN <<>>
    ELSE LET least == CHOOSE k \in keys : \A o \in keys \ {k} : KeyLess(k, o)
         IN  <<least>> \o DroKeyOrder(keys \ {least})

----------------------------------------------------------------------------
(* HardwareMapService::setup_maps.                                         *)

\* The first loop with insert(), which keeps the first record of a geo-id.
RECURSIVE IndexLinks_first_wins(_, _, _)
IndexLinks_first_wins(geo, sid, link_infos) ==
    IF link_infos = <<>> THEN [geo |-> geo, sid |-> sid]
    ELSE LET hw_info == Head(link_infos)
             id == hw_info.dro_source_id
             gid == get_geo_id_of(hw_info)
         IN  IndexLinks_first_wins(IF gid \in DOMAIN geo THEN geo ELSE Put(geo, gid, hw_info),
                        IF id \in DOMAIN sid
                        THEN Put(sid, id, Append(sid[id], hw_info))
                        ELSE Put(sid, id, <<hw_info>>),
                        Tail(link_infos))

\* The first loop with the bucket of a known source id replaced, not appended to.
RECURSIVE IndexLinks_bucket_replaced(_, _, _)
IndexLinks_bucket_replaced(geo, sid, link_infos) ==
    IF link_infos = <<>> THEN [geo |-> geo, sid |-> sid]
    ELSE LET hw_info == Head(link_infos)
         IN  IndexLinks_bucket_replaced(Put(geo, get_geo_id_of(hw_info), hw_info),
                        Put(sid, hw_info.dro_source_id, <<hw_info>>),
                        Tail(link_infos))

\* The first loop: every record goes into the geo-id index and is appended to
\* the bucket of its source id.
RECURSIVE IndexLinks(_, _, _)
IndexLinks(geo, sid, link_infos) ==
    IF link_infos = <<>> THEN [geo |-> geo, sid |-> sid]
    ELSE LET hw_info == Head(link_infos)
             id == hw_info.dro_source_id
         IN  IndexLinks(Put(geo, get_geo_id_of(hw_info), hw_info),
                        IF id \in DOMAIN sid
                        THEN Put(sid, id, Append(sid[id], hw_info))
                        ELSE Put(sid, id, <<hw_info>>),
                        Tail(link_infos))

\* The second loop keyed by the host alone.
RECURSIVE GroupDros_by_host(_, _, _)
GroupDros_by_host(dro, geo, gids) ==
    IF gids = <<>> THEN dro
    ELSE LET hwi == geo[Head(gids)]
             known == {k \in DOMAIN dro : k[1] = hwi.dro_host}
             key == IF known = {} THEN <<hwi.dro_host, hwi.dro_card>>
                    ELSE CHOOSE k \in known : TRUE
         IN  GroupDros_by_host(IF key \in DOMAIN dro
                       THEN Put(dro, key,
                                [dro[key] EXCEPT !.links = Append(@, hwi)])
                       ELSE Put(dro, key,
                                [host |-> hwi.dro_host, card |-> hwi.dro_card,
                                 links |-> <<hwi>>]),
                       geo, Tail(gids))

\* The second loop: the entries of the geo-id index, in its iteration order,
\* grouped by (host, card).
RECURSIVE GroupDros(_, _, _)
GroupDros(dro, geo, gids) ==
    IF gids = <<>> THEN dro
    ELSE LET hwi == geo[Head(gids)]
             key == <<hwi.dro_host, hwi.dro_card>>
         IN  GroupDros(IF key \in DOMAIN dro
                       THEN Put(dro, key,
                                [dro[key] EXCEPT !.links = Append(@, hwi)])
                       ELSE Put(dro, key,
                                [host |-> hwi.dro_host, card |-> hwi.dro_card,
                                 links |-> <<hwi>>]),
                       geo, Tail(gids))

setup_maps(map) ==
    LET idx == IndexLinks(EmptyMap, EmptyMap, map)
    IN  [geo |-> idx.geo,
         sid |-> idx.sid,
         dro |-> GroupDros(EmptyMap, idx.geo, GeoIdOrder(DOMAIN idx.geo))]

----------------------------------------------------------------------------
(* The queries, on service s.                                              *)

\* get_hardware_map with the loop started one entry late.
get_hardware_map_skips_first(s) ==
    LET gids == GeoIdOrder(DOMAIN m_geo_id_to_info_map[s])
    IN  [i \in 1..(Len(gids) - 1) |-> m_geo_id_to_info_map[s][gids[i + 1]]]

get_hardware_map(s) ==
    LET gids == GeoIdOrder(DOMAIN m_geo_id_to_info_map[s])
    IN  [i \in 1..Len(gids) |-> m_geo_id_to_info_map[s][gids[i]]]

get_hw_info_from_source_id(s, dro_source_id) ==
    IF dro_source_id \in DOMAIN m_source_id_to_geo_ids_map[s]
    THEN m_source_id_to_geo_ids_map[s][dro_source_id]
    ELSE <<>>

get_hw_info_from_geo_id(s, geo_id) ==
    IF geo_id \in DOMAIN m_geo_id_to_info_map[s]
    THEN m_geo_id_to_info_map[s][geo_id]
    ELSE [DefaultHWInfo EXCEPT !.from_file = FALSE]

get_all_dro_info(s) ==
    LET keys == DroKeyOrder(DOMAIN m_dro_info_map[s])
    IN  [i \in 1..Len(keys) |-> m_dro_info_map[s][keys[i]]]

\* get_dro_info answering an unknown pair with an empty DROInfo.
get_dro_info_no_throw(s, host_name, dro_card) ==
    LET key == <<host_name, dro_card>>
    IN  IF key \in DOMAIN m_dro_info_map[s]
        THEN [raised |-> FALSE, value |-> m_dro_info_map[s][key]]
        ELSE [raised |-> FALSE,
              value |-> [host |-> host_name, card |-> dro_card, links |-> <<>>]]

\* Returns the DROInfo, or throws std::runtime_error.
get_dro_info(s, host_name, dro_card) ==
    LET key == <<host_name, dro_card>>
    IN  IF key \in DOMAIN m_dro_info_map[s]
        THEN [raised |-> FALSE, value |-> m_dro_info_map[s][key]]
        ELSE [raised |-> TRUE, value |-> "HardwareMapService: Invalid DRO host/card pair"]

----------------------------------------------------------------------------
(* The file constructor's line parser.                                     *)

\* std::isspace, which operator>> skips.
IsSpace(c) == c \in {" ", "\t"}

IsDigit(c) == \E d \in 1..10 : Digits[d] = c

\* The fields in the order the constructor extracts them, with the width of
\* the integer read (0: a std::string).
Fields ==
    <<[name |-> "dro_source_id", bits |-> 32], [name |-> "det_link", bits |-> 16],
      [name |-> "det_slot", bits |-> 16],      [name |-> "det_crate", bits |-> 16],
      [name |-> "det_id", bits |-> 16],        [name |-> "dro_host", bits |-> 0],
      [name |-> "dro_card", bits |-> 16],      [name |-> "dro_slr", bits |-> 16],
      [name |-> "dro_link", bits |-> 16]>>

\* The first position at or after pos whose character fails / passes IsSpace
\* (Len(line) + 1 when there is none).
RECURSIVE SkipSpace(_, _)
SkipSpace(line, pos) ==
    IF pos <= Len(line) /\ IsSpace(line[pos]) THEN SkipSpace(line, pos + 1) ELSE pos

RECURSIVE SkipDigits(_, _)
SkipDigits(line, pos) ==
    IF pos <= Len(line) /\ IsDigit(line[pos]) THEN SkipDigits(line, pos + 1) ELSE pos

RECURSIVE SkipWord(_, _)
SkipWord(line, pos) ==
    IF pos <= Len(line) /\ ~IsSpace(line[pos]) THEN SkipWord(line, pos + 1) ELSE pos

\* The value of a run of decimal digits.
RECURSIVE DecValue(_)
DecValue(ds) ==
    IF ds = <<>> THEN 0
    ELSE 10 * DecValue(SubSeq(ds, 1, Len(ds) - 1)) + (CharCode(ds[Len(ds)]) - 48)

\* linestream >> field: st is the stream (pos: the next character, fail: its
\* failbit), hw the record being filled. A failed stream extracts nothing; an
\* integer with no digit reads as 0 and one beyond the field's width as the
\* field's maximum, both setting failbit; an empty word sets failbit.
Extract(line, st, hw, f) ==
    IF st.fail THEN [st |-> st, hw |-> hw]
    ELSE LET from == SkipSpace(line, st.pos)
         IN  IF f.bits = 0
             THEN LET to == SkipWord(line, from)
                  IN  [st |-> [pos |-> to, fail |-> to = from],
                       hw |-> [hw EXCEPT ![f.name] = SubSeq(line, from, to - 1)]]
             ELSE LET to == SkipDigits(line, from)
                      v  == DecValue(SubSeq(line, from, to - 1))
                      over == f.bits = 16 /\ v >= LimbBase
                  IN  [st |-> [pos |-> to, fail |-> to = from \/ over],
                       hw |-> [hw EXCEPT ![f.name] = IF over THEN LimbBase - 1 ELSE v]]

RECURSIVE ExtractAll(_, _, _, _)
ExtractAll(line, st, hw, fs) ==
    IF fs = <<>> THEN hw
    ELSE LET r == Extract(line, st, hw, Head(fs))
         IN  ExtractAll(line, r.st, r.hw, Tail(fs))

\* The record a line that is not skipped gives.
ParseLine(line) ==
    [ExtractAll(line, [pos |-> 1, fail |-> FALSE], DefaultHWInfo, Fields)
        EXCEPT !.from_file = TRUE]

\* line.find_first_not_of(" \t"): the position, or 0 for npos.
find_first_not_of(line) ==
    LET p == SkipSpace(line, 1) IN IF p <= Len(line) THEN p ELSE 0

\* The constructor's test for a line to skip. line[npos] is a read outside the
\* string: oob tells whether the character it happens to give is '#'.
Skipped(line, oob) ==
    \/ Len(line) = 0
    \/ LET p == find_first_not_of(line)
       IN  IF p = 0 THEN oob ELSE line[p] = "#"

\* The getline loop: hw_map_from_file.link_infos. oob[i] is the outcome of the
\* out-of-range read on line i, used only where the code makes that read.
RECURSIVE ReadLines(_, _)
ReadLines(lines, oob) ==
    IF lines = <<>> THEN <<>>
    ELSE (IF Skipped(Head(lines), Head(oob)) THEN <<>> ELSE <<ParseLine(Head(lines))>>)
         \o ReadLines(Tail(lines), Tail(oob))

----------------------------------------------------------------------------
(* Inputs.                                                                 *)

\* The longest HardwareMap handed to the map constructor.
MaxLinks == 2

\* The longest file handed to the file constructor, in lines.
MaxFileLines == 2

\* The service under study and the one rebuilt from its exported map.
Services == {1, 2}

hostA == <<"h", "o", "s", "t", "A">>

hostB == <<"h", "o", "s", "t", "B">>

Hosts == {hostA, hostB}

Cards == {10, 11}

\* The (host, card) pairs of the caller's records.
DroKeys == {<<hostA, 10>>, <<hostA, 11>>, <<hostB, 10>>}

SourceIds == {1, 2}

DetLinks == {1, 2}

HWInfoOf(sid, link, host, card) ==
    [dro_source_id |-> sid, det_link |-> link, det_slot |-> 3, det_crate |-> 4,
     det_id |-> 5, dro_host |-> host, dro_card |-> card, dro_slr |-> 0,
     dro_link |-> 0, from_file |-> TRUE]

\* The records a caller's HardwareMap is made of.
HWInfos ==
    {HWInfoOf(sid, link, key[1], key[2]) :
        sid \in SourceIds, link \in DetLinks, key \in DroKeys}

HardwareMaps == UNION {[1..n -> HWInfos] : n \in 0..MaxLinks}

\* The decimal digits of n, as operator<< writes them.
RECURSIVE Dec(_)
Dec(n) == IF n < 10 THEN <<Digits[n + 1]>> ELSE Dec(n \div 10) \o <<Digits[(n % 10) + 1]>>

\* A line of the hardware-map file for record h: lead, then the nine fields
\* separated by sep.
LineOf(h, lead, sep) ==
    lead \o Dec(h.dro_source_id) \o sep \o Dec(h.det_link) \o sep
         \o Dec(h.det_slot) \o sep \o Dec(h.det_crate) \o sep \o Dec(h.det_id)
         \o sep \o h.dro_host \o sep \o Dec(h.dro_card) \o sep \o Dec(h.dro_slr)
         \o sep \o Dec(h.dro_link)

\* The records written in the sample files.
FileRecords == {HWInfoOf(1, 2, hostA, 10), HWInfoOf(2, 1, hostB, 11)}

RecordLines ==
    {LineOf(HWInfoOf(1, 2, hostA, 10), <<>>, <<" ">>),
     LineOf(HWInfoOf(2, 1, hostB, 11), <<" ", "\t">>, <<"\t", " ">>)}

CommentLines == {<<"#", " ", "c">>, <<" ", "\t", "#", "c">>}

EmptyLine == <<>>

SpaceLines == {<<" ", "\t">>}

\* Lines with too few fields, or a field beyond its width.
MalformedLines == {<<"7", " ", "8">>, <<"1", " ", "7", "0", "0", "0", "0", " ", "3">>}

Lines == RecordLines \cup CommentLines \cup {EmptyLine} \cup SpaceLines \cup MalformedLines

Files == UNION {[1..n -> Lines] : n \in 0..MaxFileLines}

\* Arguments of the queries: every key the inputs can produce, and some they cannot.
QueryGeoIds == {get_geo_id_of(h) : h \in HWInfos \cup FileRecords} \cup {<<0, 3, 4, 5>>}

QuerySourceIds == SourceIds \cup {0}

QueryDroKeys == (Hosts \X Cards) \cup {<<hostA, 0>>, <<<<>>, 10>>}

----------------------------------------------------------------------------
(* HardwareMapService: construction and calls.                             *)

NoCall == [op |-> "none"]

Init ==
    /\ file = <<>>
    /\ input = [s \in Services |-> <<>>]
    /\ constructed = [s \in Services |-> "no"]
    /\ m_geo_id_to_info_map = [s \in Services |-> EmptyMap]
    /\ m_source_id_to_geo_ids_map = [s \in Services |-> EmptyMap]
    /\ m_dro_info_map = [s \in Services |-> EmptyMap]
    /\ result = NoCall

\* The body shared by the constructors: setup_maps(map) on the new service s.
Construct(s, how, map) ==
    LET m == setup_maps(map)
    IN  /\ input' = [input EXCEPT ![s] = map]
        /\ constructed' = [constructed EXCEPT ![s] = how]
        /\ m_geo_id_to_info_map' = [m_geo_id_to_info_map EXCEPT ![s] = m.geo]
        /\ m_source_id_to_geo_ids_map' = [m_source_id_to_geo_ids_map EXCEPT ![s] = m.sid]
        /\ m_dro_info_map' = [m_dro_info_map EXCEPT ![s] = m.dro]
        /\ result' = [op |-> "HardwareMapService", svc |-> s, raised |-> FALSE]

\* HardwareMapService(const HardwareMap&)
ConstructFromMap ==
    /\ constructed[1] = "no"
    /\ \E map \in HardwareMaps : Construct(1, "map", map)
    /\ UNCHANGED file

\* HardwareMapService(const std::string&) on a file that opens.
ConstructFromFile ==
    /\ constructed[1] = "no"
    /\ \E lines \in Files : \E oob \in [1..Len(lines) -> BOOLEAN] :
          /\ \A i \in 1..Len(lines) :
                (Len(lines[i]) = 0 \/ find_first_not_of(lines[i]) # 0) => ~oob[i]
          /\ file' = lines
          /\ Construct(1, "file", ReadLines(lines, oob))

\* HardwareMapService(const std::string&) on a file that does not open: throws.
ConstructFromFileFails ==
    /\ constructed[1] = "no"
    /\ result' = [op |-> "HardwareMapService", svc |-> 1, raised |-> TRUE]
    /\ UNCHANGED <<file, input, constructed, m_geo_id_to_info_map,
                   m_source_id_to_geo_ids_map, m_dro_info_map>>

\* HardwareMapService(const HardwareMap&), handed the map the first service
\* has just exported.
ConstructFromExport ==
    /\ constructed[2] = "no"
    /\ result.op = "get_hardware_map"
    /\ result.svc = 1
    /\ Construct(2, "map", result.value)
    /\ UNCHANGED file

\* What a call leaves alone: every query is const.
service == <<file, input, constructed, m_geo_id_to_info_map,
             m_source_id_to_geo_ids_map, m_dro_info_map>>

\* The outcome of a call that returns value.
Returned(op, s, args, value) ==
    [op |-> op, svc |-> s, args |-> args, raised |-> FALSE, value |-> value]

\* The calls below are made on the first service, the rebuilt one is only
\* exported again.

CallGetHardwareMap ==
    \E s \in Services :
        /\ constructed[s] # "no"
        /\ UNCHANGED service
        /\ result' = Returned("get_hardware_map", s, <<>>, get_hardware_map(s))

CallGetHwInfoFromSourceId ==
    \E s \in {1} : \E id \in QuerySourceIds :
        /\ constructed[s] # "no"
        /\ UNCHANGED service
        /\ result' = Returned("get_hw_info_from_source_id", s, <<id>>,
                   get_hw_info_from_source_id(s, id))

CallGetHwInfoFromGeoId ==
    \E s \in {1} : \E g \in QueryGeoIds :
        /\ constructed[s] # "no"
        /\ UNCHANGED service
        /\ result' = Returned("get_hw_info_from_geo_id", s, <<g>>, get_hw_info_from_geo_id(s, g))

CallGetAllDroInfo ==
    \E s \in {1} :
        /\ constructed[s] # "no"
        /\ UNCHANGED service
        /\ result' = Returned("get_all_dro_info", s, <<>>, get_all_dro_info(s))

CallGetDroInfo ==
    \E s \in {1} : \E key \in QueryDroKeys :
        /\ constructed[s] # "no"
        /\ LET r == get_dro_info(s, key[1], key[2])
           IN  result' = [op |-> "get_dro_info", svc |-> s, args |-> key,
                          raised |-> r.raised, value |-> r.value]
        /\ UNCHANGED service

Next ==
    \/ ConstructFromMap
    \/ ConstructFromFile
    \/ ConstructFromFileFails
    \/ ConstructFromExport
    \/ CallGetHardwareMap
    \/ CallGetHwInfoFromSourceId
    \/ CallGetHwInfoFromGeoId
    \/ CallGetAllDroInfo
    \/ CallGetDroInfo

Spec == Init /\ [][Next]_vars

----------------------------------------------------------------------------
(* The geo-id functions called on their own.                               *)

\* 16-bit values: the ends of the range, and one with both bytes in use.
U16Samples == {0, 1, 258, 65535}

\* uint64_t values, of every top sixteen bits.
U64Samples == [1..4 -> U16Samples]

CallGetGeoId ==
    \E det_link \in U16Samples, det_slot \in U16Samples,
       det_crate \in U16Samples, det_id \in U16Samples :
        /\ UNCHANGED service
        /\ result' = Returned("get_geo_id", 0, <<det_link, det_slot, det_crate, det_id>>,
                get_geo_id(det_link, det_slot, det_crate, det_id))

CallParseGeoId ==
    \E geo_id \in U64Samples :
        /\ UNCHANGED service
        /\ result' = Returned("parse_geo_id", 0, <<geo_id>>, parse_geo_id(geo_id))

NextGeo == CallGetGeoId \/ CallParseGeoId

SpecGeo == Init /\ [][NextGeo]_vars

----------------------------------------------------------------------------
(* PD2HDChannelMap, over the external dune::PD2HDChannelMapSP.             *)

\* An int converted to unsigned int (modulo 2^32), as limbs.
IntToUint(n) ==
    IF n >= 0 THEN <<n \div LimbBase, n % LimbBase>>
    ELSE <<(LimbBase - 1) - ((-n - 1) \div LimbBase),
           (LimbBase - 1) - ((-n - 1) % LimbBase)>>

\* x - y on unsigned int, y below 2^16: wraps modulo 2^32.
USub32(x, y) ==
    IF x[2] >= y THEN <<x[1], x[2] - y>>
    ELSE <<(x[1] + LimbBase - 1) % LimbBase, x[2] + LimbBase - y>>

\* What the external lookups (GetChanInfoFromWIBElements, GetChanInfoFromOfflChan)
\* can answer: the adapter reads these fields of it.
ChanInfos ==
    [valid : BOOLEAN, offlchan : {IntToUint(0), IntToUint(2559)},
     plane : {IntToUint(0), IntToUint(2)}, crate : {IntToUint(1)},
     wib : {IntToUint(0), IntToUint(1), IntToUint(5)},
     link : {IntToUint(0), IntToUint(1)}, wibframechan : {IntToUint(255)}]

get_offline_channel_from_crate_slot_fiber_chan(chan_info) ==
    IF ~chan_info.valid THEN IntToUint(-1) ELSE chan_info.offlchan

get_plane_from_offline_channel(chan_info) ==
    IF ~chan_info.valid THEN IntToUint(9999) ELSE chan_info.plane

\* The coordinates with the slot left as the WIB number.
get_crate_slot_fiber_chan_from_offline_channel_wib(ci) ==
    IF ~ci.valid THEN <<>>
    ELSE <<[crate |-> ci.crate, slot |-> ci.wib, link |-> ci.link,
            channel |-> ci.wibframechan]>>

\* std::nullopt is <<>>, a present TPCCoords is <<coords>>.
get_crate_slot_fiber_chan_from_offline_channel(ci) ==
    IF ~ci.valid THEN <<>>
    ELSE <<[crate |-> ci.crate, slot |-> USub32(ci.wib, 1), link |-> ci.link,
            channel |-> ci.wibframechan]>>

CallGetOfflineChannel ==
    \E chan_info \in ChanInfos :
        /\ UNCHANGED service
        /\ result' = Returned("get_offline_channel_from_crate_slot_fiber_chan", 0, chan_info,
                get_offline_channel_from_crate_slot_fiber_chan(chan_info))

CallGetPlane ==
    \E chan_info \in ChanInfos :
        /\ UNCHANGED service
        /\ result' = Returned("get_plane_from_offline_channel", 0, chan_info,
                get_plane_from_offline_channel(chan_info))

CallGetCoords ==
    \E ci \in ChanInfos :
        /\ UNCHANGED service
        /\ result' = Returned("get_crate_slot_fiber_chan_from_offline_channel", 0, ci,
                get_crate_slot_fiber_chan_from_offline_channel(ci))

NextAdapter == CallGetOfflineChannel \/ CallGetPlane \/ CallGetCoords

SpecAdapter == Init /\ [][NextAdapter]_vars

----------------------------------------------------------------------------
(* Properties.                                                             *)

Range(seq) == {seq[i] : i \in 1..Len(seq)}

\* The first service has been constructed.
Built == constructed[1] # "no"

\* The four detector fields of a record, the value its geo-id packs.
GeoKey(h) == <<h.det_link, h.det_slot, h.det_crate, h.det_id>>

DroKey(h) == <<h.dro_host, h.dro_card>>

\* The input records that no later input record shares its geo-id with.
Survivors(map) ==
    {map[i] : i \in {j \in 1..Len(map) :
                        \A k \in (j + 1)..Len(map) : GeoKey(map[k]) # GeoKey(map[j])}}

DistinctGeoIds(map) ==
    \A i, j \in 1..Len(map) : i # j => GeoKey(map[i]) # GeoKey(map[j])

\* C1, as stated: for every (host, card) pair of an input record get_dro_info
\* succeeds and its links are exactly the input records with that pair.
C1_DroLinksAreAllInputRecords ==
    Built =>
        \A i \in 1..Len(input[1]) :
            LET key == DroKey(input[1][i])
                r == get_dro_info(1, key[1], key[2])
            IN  /\ ~r.raised
                /\ Range(r.value.links) = {h \in Range(input[1]) : DroKey(h) = key}

\* C1, amended: get_dro_info(host, card) succeeds exactly for the pairs of the
\* input records that are the last of their geo-id, and its links are exactly
\* those records with that pair, each once; two records sharing host and card
\* with different links give 2 links.
C1_DroLinksAreSurvivingRecords ==
    Built =>
        \A key \in QueryDroKeys \cup {DroKey(h) : h \in Range(input[1])} :
            LET r == get_dro_info(1, key[1], key[2])
                kept == {h \in Survivors(input[1]) : DroKey(h) = key}
            IN  IF kept = {} THEN r.raised
                ELSE /\ ~r.raised
                     /\ r.value.host = key[1]
                     /\ r.value.card = key[2]
                     /\ Range(r.value.links) = kept
                     /\ Len(r.value.links) = Cardinality(kept)

\* Two input records share hostA/10 and differ in their links, and
\* get_dro_info("hostA", 10) has returned 2 links.
C1_Witness ==
    /\ Built
    /\ Len(input[1]) = 2
    /\ DroKey(input[1][1]) = <<hostA, 10>>
    /\ DroKey(input[1][2]) = <<hostA, 10>>
    /\ input[1][1].det_link # input[1][2].det_link
    /\ result.op = "get_dro_info"
    /\ result.args = <<hostA, 10>>
    /\ ~result.raised
    /\ Len(result.value.links) = 2

\* C2, as stated: every record found through the source-id index or the
\* (host, card) index is what the geo-id index returns for its geo-id.
C2_EveryIndexedRecordIsInGeoIndex ==
    Built =>
        /\ \A id \in DOMAIN m_source_id_to_geo_ids_map[1] :
              \A h \in Range(get_hw_info_from_source_id(1, id)) :
                  get_hw_info_from_geo_id(1, get_geo_id_of(h)) = h
        /\ \A d \in Range(get_all_dro_info(1)) :
              \A h \in Range(d.links) :
                  get_hw_info_from_geo_id(1, get_geo_id_of(h)) = h

\* C3: when the input records have pairwise distinct geo-ids, the geo-id
\* lookup of each input record's geo-id returns that record.
C3_GeoLookupReturnsRecord ==
    (Built /\ DistinctGeoIds(input[1])) =>
        \A h \in Range(input[1]) : get_hw_info_from_geo_id(1, get_geo_id_of(h)) = h

\* Two records with different geo-ids were given, and the lookup of the second
\* one's geo-id has returned it.
C3_Witness ==
    /\ Built
    /\ Len(input[1]) = 2
    /\ DistinctGeoIds(input[1])
    /\ result.op = "get_hw_info_from_geo_id"
    /\ result.args = <<GeoKey(input[1][2])>>
    /\ result.value = input[1][2]

\* C4: parse_geo_id of a get_geo_id result gives back the four fields, and
\* get_geo_id of the fields parse_geo_id gives for an x whose top 16 bits are
\* zero gives back x.
C4_GeoIdRoundTrip ==
    /\ result.op = "get_geo_id" =>
          parse_geo_id(result.value) =
              [det_link |-> result.args[1], det_slot |-> result.args[2],
               det_crate |-> result.args[3], det_id |-> result.args[4]]
    /\ (result.op = "parse_geo_id" /\ result.args[1][1] = 0) =>
          get_geo_id(result.value.det_link, result.value.det_slot,
                     result.value.det_crate, result.value.det_id) = result.args[1]

\* get_geo_id has packed four different non-zero fields, the largest among them.
C4_Witness ==
    /\ result.op = "get_geo_id"
    /\ result.args = <<65535, 258, 1, 65535>>
    /\ result.value = <<65535, 258, 1, 65535>>

\* C5: a geo-id no input record has is answered by the all-zero record with
\* from_file = FALSE, a source id no input record has by the empty sequence,
\* a (host, card) pair outside the DRO index by an error; and no call of a
\* query other than get_dro_info raises.
C5_NotFoundOutcomes ==
    /\ Built =>
          /\ \A g \in QueryGeoIds :
                (\A h \in Range(input[1]) : GeoKey(h) # g) =>
                    get_hw_info_from_geo_id(1, g) =
                        [dro_source_id |-> 0, det_link |-> 0, det_slot |-> 0,
                         det_crate |-> 0, det_id |-> 0, dro_host |-> <<>>,
                         dro_card |-> 0, dro_slr |-> 0, dro_link |-> 0,
                         from_file |-> FALSE]
          /\ \A id \in QuerySourceIds :
                (\A h \in Range(input[1]) : h.dro_source_id # id) =>
                    get_hw_info_from_source_id(1, id) = <<>>
          /\ \A key \in QueryDroKeys :
                key \notin DOMAIN m_dro_info_map[1] =>
                    get_dro_info(1, key[1], key[2]).raised
    /\ (result.op \notin {"none", "HardwareMapService"} /\ result.raised) =>
          /\ result.op = "get_dro_info"
          /\ result.args \notin DOMAIN m_dro_info_map[1]

\* A service holding a record has been asked for a (host, card) pair it does
\* not have, and the call raised.
C5_Witness ==
    /\ Built
    /\ Len(input[1]) > 0
    /\ result.op = "get_dro_info"
    /\ result.args = <<hostA, 0>>
    /\ result.raised

\* C6: the map exported by the service rebuilt from an exported map holds the
\* same records as the exported map it was built from.
C6_ExportRoundTrip ==
    constructed[2] # "no" =>
        /\ Range(get_hardware_map(2)) = Range(get_hardware_map(1))
        /\ Len(get_hardware_map(2)) = Len(get_hardware_map(1))

\* The rebuilt service has exported two records.
C6_Witness ==
    /\ constructed[2] # "no"
    /\ result.op = "get_hardware_map"
    /\ result.svc = 2
    /\ Len(result.value) = 2

\* A line of white space only (the empty line is one), and a line whose first
\* character that is not white space is '#'.
IsBlankLine(line) == \A i \in 1..Len(line) : line[i] \in {" ", "\t"}

IsCommentLine(line) ==
    \E i \in 1..Len(line) :
        /\ line[i] = "#"
        /\ \A j \in 1..(i - 1) : line[j] \in {" ", "\t"}

\* The lines the file constructor is to make records of.
RecordBearing(lines) ==
    LET Kept(line) == ~IsBlankLine(line) /\ ~IsCommentLine(line)
    IN  SelectSeq(lines, Kept)

\* Line is record h written out: its nine fields in order, separated (and
\* possibly led) by white space.
Writes(line, h) ==
    \E lead \in {<<>>, <<" ", "\t">>} : \E sep \in {<<" ">>, <<"\t", " ">>} :
        line = LineOf(h, lead, sep)

\* C7, as stated: the file constructor skips every blank line and every
\* comment line and makes one record of every other line, in file order, with
\* from_file = TRUE and, for a line of nine fields, those fields in order
\* (so the line 1 2 3 4 5 hostA 10 0 0 gives geo-id (2<<48)|(3<<32)|(4<<16)|5).
C7_OneRecordPerRecordLine ==
    constructed[1] = "file" =>
        LET kept == RecordBearing(file)
        IN  /\ Len(input[1]) = Len(kept)
            /\ \A i \in 1..Len(input[1]) : input[1][i].from_file
            /\ \A i \in 1..Len(kept) : \A h \in FileRecords :
                  (i <= Len(input[1]) /\ Writes(kept[i], h)) =>
                      /\ input[1][i] = h
                      /\ get_geo_id_of(input[1][i]) = GeoKey(h)

\* C8: get_hw_info_from_source_id(id) returns the input records whose source
\* id is id, all of them and in input order (the empty sequence when there is
\* none).
C8_SourceIdLookup ==
    Built =>
        \A id \in QuerySourceIds \cup {h.dro_source_id : h \in Range(input[1])} :
            LET HasId(h) == h.dro_source_id = id
            IN  get_hw_info_from_source_id(1, id) = SelectSeq(input[1], HasId)

\* Two different records of one source id were given, and the lookup of that
\* source id has returned both, in input order.
C8_Witness ==
    /\ Built
    /\ Len(input[1]) = 2
    /\ input[1][1] # input[1][2]
    /\ input[1][1].dro_source_id = input[1][2].dro_source_id
    /\ result.op = "get_hw_info_from_source_id"
    /\ result.value = input[1]

\* C9: no adapter query raises; on an invalid lookup they return 2^32 - 1,
\* 9999 and an absent optional, on a valid one the offline channel, the plane
\* and (crate, wib - 1, link, wibframechan), wib - 1 in unsigned arithmetic.
C9_AdapterSentinels ==
    LET ci == result.args
    IN  /\ result.op = "get_offline_channel_from_crate_slot_fiber_chan" =>
              /\ ~result.raised
              /\ result.value = IF ci.valid THEN ci.offlchan ELSE <<65535, 65535>>
        /\ result.op = "get_plane_from_offline_channel" =>
              /\ ~result.raised
              /\ result.value = IF ci.valid THEN ci.plane ELSE <<0, 9999>>
        /\ result.op = "get_crate_slot_fiber_chan_from_offline_channel" =>
              /\ ~result.raised
              /\ ~ci.valid => result.value = <<>>
              /\ ci.valid =>
                    /\ Len(result.value) = 1
                    /\ result.value[1].crate = ci.crate
                    /\ result.value[1].link = ci.link
                    /\ result.value[1].channel = ci.wibframechan
                    /\ result.value[1].slot =
                          IF ci.wib = <<0, 0>> THEN <<65535, 65535>>
                          ELSE <<ci.wib[1], ci.wib[2] - 1>>

\* The coordinates of a valid channel on WIB 5 have been returned.
C9_Witness ==
    /\ result.op = "get_crate_slot_fiber_chan_from_offline_channel"
    /\ result.args.valid
    /\ result.args.wib = <<0, 5>>
    /\ result.value[1].slot = <<0, 4>>

\* C10: construction succeeds whatever geo-ids repeat; get_hardware_map()
\* returns one record per distinct geo-id of the input, each the last input
\* record of its geo-id, in the order the geo-id index is iterated in (the
\* order the links of every DROInfo, filled by the same iteration, are in);
\* and get_hw_info_from_geo_id(g) returns the last input record of geo-id g.
C10_LastWriteWins ==
    /\ (result.op = "HardwareMapService" /\ constructed[result.svc] = "map") =>
          ~result.raised
    /\ Built =>
          LET hwm == get_hardware_map(1)
          IN  /\ Range(hwm) = Survivors(input[1])
              /\ Len(hwm) = Cardinality({GeoKey(h) : h \in Range(input[1])})
              /\ \A key \in DOMAIN m_dro_info_map[1] :
                    LET HasKey(h) == DroKey(h) = key
                    IN  m_dro_info_map[1][key].links = SelectSeq(hwm, HasKey)
              /\ \A h \in Survivors(input[1]) :
                    get_hw_info_from_geo_id(1, get_geo_id_of(h)) = h

\* Two different records of one geo-id were given, and get_hardware_map has
\* returned the second alone.
C10_Witness ==
    /\ Built
    /\ Len(input[1]) = 2
    /\ GeoKey(input[1][1]) = GeoKey(input[1][2])
    /\ input[1][1] # input[1][2]
    /\ result.op = "get_hardware_map"
    /\ result.svc = 1
    /\ result.value = <<input[1][2]>>

====
